---- MODULE Spec2Model ----
(***************************************************************************)
(* Verification model of the flight_analyzer extraction and analysis       *)
(* pipeline: FlightScraper (app/core/flight_scraper.py), the /search and  *)
(* /analyze endpoints with the basic analyzer                              *)
(* (app/api/endpoints/flights.py) and GeminiAnalyzer (app/core/gemini.py). *)
(*                                                                         *)
(* Texts are sequences of one-character strings so that replace, strip,    *)
(* lower, substring search and float() are computed, not assumed.          *)
(* Prices are whole numbers: sums and comparisons are exact.               *)
(***************************************************************************)
EXTENDS Integers, Sequences, FiniteSets, TLC

VARIABLES
    \* ---- FlightScraper._extract_flight_data ----
    exPc,        \* "idle" | "start" | "loop" | "returned" | "raised"
    nItems,      \* number of div[role="listitem"] elements on the rendered page
    page,        \* what the driver answered for the list items read so far
    flights,     \* the local list `flights` of _extract_flight_data
    logged,      \* logger.error was called by _extract_flight_data
    \* ---- POST /analyze ----
    anPc,        \* "idle" | "enter" | "ai" | "save" | "basic" | "done"
    request,     \* the request: flights, use_ai, app.state, what the AI service will answer
    response,    \* the endpoint's local `response`
    insights,    \* the local dict `insights` of _perform_basic_analysis (NoInsights before)
    outcome,     \* what the caller receives: status code and kind of body
    trace,       \* which steps of the handler ran, in order
    gemini,      \* the call of GeminiAnalyzer.analyze_flights: the answer it got, how it ended
    \* ---- one browser scrape session (FlightScraper.get_flights, browser path) ----
    ssPc,        \* position of the scrape
    scraper,     \* self: the configured timeout
    handles,     \* the handles this scrape opened and has not closed
    locals,      \* get_flights' locals: playwright, browser, the pending exception
    ssLog,       \* the waits issued and the steps taken, in order
    ssResult,    \* what the scrape hands its caller
    \* ---- POST /search: scrape_google_flights as shipped ----
    scPc,        \* "idle" | "build" | "call" | "consume" | "done"
    params,      \* the validated FlightSearchParams
    url,         \* the URL _build_google_flights_url returned
    scraped,     \* what scrape_google_flights handed search_flights
    reply,       \* what search_flights answers
    \* ---- the event loop of one server process ----
    tasks,       \* per request: which handler it runs and where that handler is
    running      \* the request whose handler holds the loop's thread, 0 for none

exVars == <<exPc, nItems, page, flights, logged>>
anVars == <<anPc, request, response, insights, outcome, trace, gemini>>
ssVars == <<ssPc, scraper, handles, locals, ssLog, ssResult>>
scVars == <<scPc, params, url, scraped, reply>>
elVars == <<tasks, running>>
vars   == <<exPc, nItems, page, flights, logged,
            anPc, request, response, insights, outcome, trace, gemini,
            ssPc, scraper, handles, locals, ssLog, ssResult,
            scPc, params, url, scraped, reply,
            tasks, running>>

Min(a, b) == IF a <= b THEN a ELSE b

(***************************************************************************)
(* Python text operations used by the extractor.                           *)
(***************************************************************************)
NNBSP == "u202f"      \* the narrow no-break space ' ', one character

\* str.replace(ch, '')
Remove(t, ch) == SelectSeq(t, LAMBDA c : c # ch)

RECURSIVE LStrip(_)
LStrip(t) == IF t # <<>> /\ Head(t) = " " THEN LStrip(Tail(t)) ELSE t

RECURSIVE RStrip(_)
RStrip(t) ==
    IF t # <<>> /\ t[Len(t)] = " " THEN RStrip(SubSeq(t, 1, Len(t) - 1)) ELSE t

\* str.strip()
Strip(t) == LStrip(RStrip(t))

\* str.lower(), on the letters the sample texts use
LowerChar(c) ==
    CASE c = "N" -> "n"
      [] c = "O" -> "o"
      [] c = "S" -> "s"
      [] c = "T" -> "t"
      [] c = "P" -> "p"
      [] OTHER   -> c

Lower(t) == [k \in 1..Len(t) |-> LowerChar(t[k])]

\* `w in t`
Contains(t, w) ==
    \E k \in 0..(Len(t) - Len(w)) : SubSeq(t, k + 1, k + Len(w)) = w

\* t.split(sep)[0]
RECURSIVE SplitFirst(_, _)
SplitFirst(t, sep) ==
    IF t = <<>> \/ Head(t) = sep THEN <<>>
    ELSE <<Head(t)>> \o SplitFirst(Tail(t), sep)

DigitVal(c) ==
    CASE c = "0" -> 0
      [] c = "1" -> 1
      [] c = "2" -> 2
      [] OTHER   -> -1

IsDigit(c) == DigitVal(c) >= 0

RECURSIVE DigitsValue(_, _)
DigitsValue(t, acc) ==
    IF t = <<>> THEN acc ELSE DigitsValue(Tail(t), 10 * acc + DigitVal(Head(t)))

AllDigits(t) == t # <<>> /\ \A k \in 1..Len(t) : IsDigit(t[k])

\* float(t) on signed whole-number text: a value, or ValueError
ParseFloat(t) ==
    LET s    == Strip(t)
        neg  == s # <<>> /\ Head(s) = "-"
        body == IF s # <<>> /\ Head(s) \in {"-", "+"} THEN Tail(s) ELSE s
    IN  IF AllDigits(body)
        THEN [raised |-> FALSE,
              val |-> IF neg THEN 0 - DigitsValue(body, 0) ELSE DigitsValue(body, 0)]
        ELSE [raised |-> TRUE, val |-> 0]

(***************************************************************************)
(* FlightScraper._extract_flight_data: what the driver can answer.         *)
(*                                                                         *)
(* One answer of the driver for one element read: the read raised, the     *)
(* element is absent (None), or its text.  "unread" marks a read the loop  *)
(* body never reached.  The reads follow the contract the code relies on   *)
(* (`if price_text:`, `dep or ''`): an absent element answers None; any    *)
(* read may instead raise, whatever the reason the driver has.             *)
(***************************************************************************)
OutRaise   == [k |-> "raise",  t |-> <<>>]
OutNone    == [k |-> "none",   t |-> <<>>]
Unread     == [k |-> "unread", t |-> <<>>]
OutText(t) == [k |-> "text",   t |-> t]

\* Python truthiness of an answer: None and '' are falsy
Truthy(rd) == rd.k = "text" /\ rd.t # <<>>

MaxResults == 30      \* cards[:30]
MaxItems   == 2       \* pages of up to MaxItems items hold arbitrary items
MaxExtra   == 1       \* longest page: MaxResults + MaxExtra items

\* what `airline` holds when the aria-label read does not raise
AirlineText == <<"Q", "F">>
DepText     == <<"7", ":", "0", "0", NNBSP, "A", "M">>
ArrText     == <<"9", ":", "0", "0", NNBSP, "P", "M">>
DurText     == <<"2", "h">>
Unknown     == <<"U", "n", "k", "n", "o", "w", "n">>
NonstopWord == <<"n", "o", "n", "s", "t", "o", "p">>

\* sample texts of the .YMlIz price element
PriceTexts ==
    { <<>>,
      <<"$", "1">>,
      <<" ", "$", "1", ",", "0", "2", "0", " ">>,
      <<"-", "2">>,
      <<"$", "0">>,
      <<"$">>,
      <<"x">>,
      <<"$", "1", "x">> }

\* sample texts of the stop indicator
StopsTexts ==
    { <<>>,
      <<"N", "o", "n", "s", "t", "o", "p">>,
      <<"x", "N", "O", "N", "S", "T", "O", "P", "x">>,
      <<"1", " ", "s", "t", "o", "p">>,
      <<"N", "o", "n", " ", "s", "t", "o", "p">> }

\* price = None; if price_text: price = float(price_text.replace('$','').replace(',','').strip())
\* (isNone: price stayed None; raised: float() raised ValueError)
PriceValue(rd) ==
    IF Truthy(rd)
    THEN LET f == ParseFloat(Strip(Remove(Remove(rd.t, "$"), ",")))
         IN  [isNone |-> FALSE, raised |-> f.raised, val |-> f.val]
    ELSE [isNone |-> TRUE, raised |-> FALSE, val |-> 0]

\* price or 0.0
PriceOrZero(p) == IF p.isNone \/ p.val = 0 THEN 0 ELSE p.val

StopsOfCaseSensitive(rd) ==
    IF Truthy(rd) /\ Contains(rd.t, NonstopWord) THEN 0 ELSE 1

\* stops = 0 if stops_text and 'nonstop' in stops_text.lower() else 1
StopsOf(rd) ==
    IF Truthy(rd) /\ Contains(Lower(rd.t), NonstopWord) THEN 0 ELSE 1

\* The reads of one loop body happen in order; once one raises past the
\* airline's own try/except, the later ones are never made.
Sequential(c) ==
    /\ c.dep.k # "unread"
    /\ (c.arr.k = "unread") <=> (c.dep.k = "raise")
    /\ (c.dur.k = "unread") <=> (c.arr.k \in {"raise", "unread"})
    /\ (c.price_text.k = "unread") <=> (c.dur.k \in {"raise", "unread"})
    /\ (c.stops_text.k = "unread") <=>
           (c.price_text.k \in {"raise", "unread"} \/ PriceValue(c.price_text).raised)

Cards ==
    { c \in [airline    : {OutRaise, OutText(AirlineText)},
             dep        : {OutRaise, Unread, OutText(DepText)},
             arr        : {OutRaise, Unread, OutText(ArrText)},
             dur        : {OutRaise, Unread, OutText(DurText)},
             price_text : {OutRaise, Unread, OutNone} \cup {OutText(t) : t \in PriceTexts},
             stops_text : {OutRaise, Unread, OutNone} \cup {OutText(t) : t \in StopsTexts}]
        : Sequential(c) }

\* an exception leaves the loop body (everything but the airline read, which
\* has its own try/except)
CardRaises(c) ==
    \/ c.dep.k = "raise"
    \/ c.arr.k = "raise"
    \/ c.dur.k = "raise"
    \/ c.price_text.k = "raise"
    \/ PriceValue(c.price_text).raised
    \/ c.stops_text.k = "raise"

TextOr(rd, default) == IF Truthy(rd) THEN rd.t ELSE default

\* the dict `flight` built for one card
MakeFlight(c) ==
    [airline           |-> TextOr(c.airline, Unknown),
     flight_number     |-> "None",
     departure_airport |-> IF Truthy(c.dep) THEN SplitFirst(c.dep.t, NNBSP) ELSE <<>>,
     arrival_airport   |-> IF Truthy(c.arr) THEN SplitFirst(c.arr.t, NNBSP) ELSE <<>>,
     departure_time    |-> TextOr(c.dep, <<>>),
     arrival_time      |-> TextOr(c.arr, <<>>),
     duration          |-> TextOr(c.dur, <<>>),
     price             |-> PriceOrZero(PriceValue(c.price_text)),
     stops             |-> StopsOf(c.stops_text),
     source            |-> "scraper"]

CardsToReadUncapped(n) == n

\* len(cards[:30])
CardsToRead(n) == Min(n, MaxResults)

ParseFailureClearsList(fl) == [pc |-> "returned", flights |-> <<>>, logged |-> TRUE]

\* except Exception as e: logger.error(...); then `return flights`
ParseFailure(fl) == [pc |-> "returned", flights |-> fl, logged |-> TRUE]

PageSizes == (0..MaxItems) \cup ((MaxResults - 1)..(MaxResults + MaxExtra))

\* Pages longer than MaxItems repeat their first item.
ItemAnswers(n, read) ==
    IF n <= MaxItems \/ read = <<>> THEN Cards ELSE {read[1]}

\* cards = await page.query_selector_all('div[role="listitem"]')
QuerySelectorAll ==
    /\ exPc = "start"
    /\ \/ /\ exPc' = "loop"
          /\ UNCHANGED <<flights, logged>>
       \/ LET h == ParseFailure(flights)
          IN  /\ exPc' = h.pc
              /\ flights' = h.flights
              /\ logged' = h.logged
    /\ UNCHANGED <<nItems, page>>
    /\ UNCHANGED <<anVars, ssVars, scVars, elVars>>

\* one iteration of `for card in cards[:30]`
ExtractCard ==
    /\ exPc = "loop"
    /\ Len(page) < CardsToRead(nItems)
    /\ \E c \in ItemAnswers(nItems, page) :
          /\ page' = Append(page, c)
          /\ IF CardRaises(c)
             THEN LET h == ParseFailure(flights)
                  IN  /\ exPc' = h.pc
                      /\ flights' = h.flights
                      /\ logged' = h.logged
             ELSE /\ flights' = Append(flights, MakeFlight(c))
                  /\ UNCHANGED <<exPc, logged>>
    /\ UNCHANGED nItems
    /\ UNCHANGED <<anVars, ssVars, scVars, elVars>>

\* the loop is exhausted: return flights
ExtractReturn ==
    /\ exPc = "loop"
    /\ Len(page) = CardsToRead(nItems)
    /\ exPc' = "returned"
    /\ UNCHANGED <<nItems, page, flights, logged>>
    /\ UNCHANGED <<anVars, ssVars, scVars, elVars>>

NoInsights == [computed |-> FALSE]
NoRequest  == [use_ai |-> FALSE]
NoResponse == [kind |-> "None"]
NoOutcome  == [status |-> 0, body |-> "none"]
NoGemini   == [called |-> FALSE]

AnIdle ==
    /\ anPc = "idle"
    /\ request = NoRequest
    /\ response = NoResponse
    /\ insights = NoInsights
    /\ outcome = NoOutcome
    /\ trace = <<>>
    /\ gemini = NoGemini

NoDetail  == [text |-> "none", status |-> 0]
NoLocals  == [playwright |-> FALSE, browser |-> FALSE, pending |-> "none",
              detail |-> NoDetail, flights |-> 0]
NoScraper == [timeout |-> 0]
NoResult  == [kind |-> "none"]

SsIdle ==
    /\ ssPc = "idle"
    /\ scraper = NoScraper
    /\ handles = {}
    /\ locals = NoLocals
    /\ ssLog = <<>>
    /\ ssResult = NoResult

NoParams  == [departure |-> <<>>, destination |-> <<>>, date |-> <<>>]
NoScraped == [kind |-> "none"]
NoReply   == [status |-> 0, body |-> "none"]

ScIdle ==
    /\ scPc = "idle"
    /\ params = NoParams
    /\ url = <<>>
    /\ scraped = NoScraped
    /\ reply = NoReply

ElIdle ==
    /\ tasks = <<>>
    /\ running = 0

ExIdle ==
    /\ exPc = "idle"
    /\ nItems = 0
    /\ page = <<>>
    /\ flights = <<>>
    /\ logged = FALSE

InitExtract ==
    /\ exPc = "start"
    /\ nItems \in PageSizes
    /\ page = <<>>
    /\ flights = <<>>
    /\ logged = FALSE
    /\ AnIdle
    /\ SsIdle
    /\ ScIdle
    /\ ElIdle

NextExtract == QuerySelectorAll \/ ExtractCard \/ ExtractReturn

SpecExtract == InitExtract /\ [][NextExtract]_vars

(***************************************************************************)
(* POST /analyze: flights.analyze_flights, _perform_basic_analysis and     *)
(* GeminiAnalyzer.                                                         *)
(*                                                                         *)
(* A flight dict carries a whole-number price and, optionally, the key     *)
(* duration_minutes; its other keys are those of FlightBase.  A statistic  *)
(* is an exact fraction num/den.                                           *)
(***************************************************************************)
MaxFlights == 3       \* longest flight list of a request
MaxPrice   == 2       \* prices are 1..MaxPrice

Durations == {1, 2}

FlightDicts ==
    [price : 1..MaxPrice, has_dm : {FALSE}, dm : {0}]
        \cup [price : 1..MaxPrice, has_dm : {TRUE}, dm : Durations]

RECURSIVE SeqsUpTo(_, _)
SeqsUpTo(S, n) ==
    IF n = 0 THEN {<<>>}
    ELSE LET shorter == SeqsUpTo(S, n - 1)
         IN  shorter \cup {Append(q, x) : q \in {r \in shorter : Len(r) = n - 1}, x \in S}

FlightLists == SeqsUpTo(FlightDicts, MaxFlights)

Q(n, d) == [num |-> n, den |-> d]
LeqQ(a, b) == a.num * b.den <= b.num * a.den

RECURSIVE SeqSum(_)
SeqSum(col) == IF col = <<>> THEN 0 ELSE Head(col) + SeqSum(Tail(col))

SeqMin(col) == CHOOSE m \in {col[i] : i \in 1..Len(col)} : \A i \in 1..Len(col) : m <= col[i]
SeqMax(col) == CHOOSE m \in {col[i] : i \in 1..Len(col)} : \A i \in 1..Len(col) : m >= col[i]

RECURSIVE Insert(_, _)
Insert(x, sorted) ==
    IF sorted = <<>> \/ x <= Head(sorted) THEN <<x>> \o sorted
    ELSE <<Head(sorted)>> \o Insert(x, Tail(sorted))

RECURSIVE Sorted(_)
Sorted(col) == IF col = <<>> THEN <<>> ELSE Insert(Head(col), Sorted(Tail(col)))

\* Series.median(): the middle value, or the mean of the two middle values
Median(col) ==
    LET srt == Sorted(col)
        n   == Len(col)
    IN  IF n % 2 = 1 THEN Q(srt[(n + 1) \div 2], 1)
        ELSE Q(srt[n \div 2] + srt[n \div 2 + 1], 2)

\* Series.mean()
Mean(col) == Q(SeqSum(col), Len(col))

IdxMax(rows, present, val) ==
    CHOOSE i \in {j \in 1..Len(rows) : present[j]} :
        /\ \A j \in 1..Len(rows) : present[j] => val[j] <= val[i]
        /\ \A j \in 1..(i - 1) : present[j] => val[j] # val[i]

\* Series.idxmin(): the first row holding the least value, rows without a value skipped
IdxMin(rows, present, val) ==
    CHOOSE i \in {j \in 1..Len(rows) : present[j]} :
        /\ \A j \in 1..Len(rows) : present[j] => val[i] <= val[j]
        /\ \A j \in 1..(i - 1) : present[j] => val[j] # val[i]

PriceColumn(fl) == [i \in 1..Len(fl) |-> fl[i].price]

\* the dict price_stats
PriceStats(fl) ==
    LET col == PriceColumn(fl)
    IN  [min     |-> Q(SeqMin(col), 1),
         max     |-> Q(SeqMax(col), 1),
         average |-> Mean(col),
         median  |-> Median(col)]

\* cheapest = df.loc[df['price'].idxmin()].to_dict()
Cheapest(fl) ==
    fl[IdxMin(fl, [i \in 1..Len(fl) |-> TRUE], PriceColumn(fl))]

\* 'duration_minutes' in df.columns
HasDurationColumn(fl) == \E i \in 1..Len(fl) : fl[i].has_dm

\* fastest = df.loc[df['duration_minutes'].idxmin()].to_dict() if the column exists else {}
Fastest(fl) ==
    fl[IdxMin(fl, [i \in 1..Len(fl) |-> fl[i].has_dm], [i \in 1..Len(fl) |-> fl[i].dm])]

\* names bound at module level in app/api/endpoints/flights.py
EndpointNames ==
    {"logging", "Dict", "List", "Optional", "Any", "APIRouter", "Depends",
     "HTTPException", "status", "Request", "JSONResponse", "HTMLResponse",
     "Jinja2Templates", "datetime", "timedelta", "pd", "traceback", "settings",
     "FlightSearchParams", "FlightResponse", "FlightBase", "AnalysisRequest",
     "AnalysisResponse", "FlightScraper", "GeminiAnalyzer", "Body", "Query", "Form"}

\* names bound at module level in app/core/gemini.py
GeminiNames ==
    {"os", "json", "logging", "Dict", "List", "Optional", "Tuple", "Any",
     "datetime", "genai", "Path", "settings", "AnalysisRequest", "AnalysisResponse",
     "FlightInsights", "PriceAnalysis", "AirlineAnalysis", "FlightRecommendation"}

\* keys of a flight dict shaped like FlightBase
FlightKeys(d) ==
    {"airline", "flight_number", "departure_airport", "arrival_airport",
     "departure_time", "arrival_time", "duration", "price", "stops",
     "aircraft", "cabin_class", "source"}
        \cup (IF d.has_dm THEN {"duration_minutes"} ELSE {})

\* fields FlightRecommendation declares without a default
RecommendationRequired ==
    {"airline", "flight_number", "price", "duration", "departure_time",
     "arrival_time", "stops", "recommendation_type", "value_score"}

\* FlightRecommendation(**d) of a highlighted flight dict validates
RecommendationValid(d) == RecommendationRequired \subseteq FlightKeys(d)

\* the dict `insights` (lines 185-202)
BasicInsights(fl) ==
    LET st == PriceStats(fl)
    IN  [summary         |-> "Basic flight analysis (AI not available)",
         key_findings    |-> << [found |-> Len(fl), from |-> st.min, to |-> st.max],
                                [average |-> st.average] >>,
         price_analysis  |-> [overall |-> st],
         airline_comparison |-> <<>>,
         best_value_flights |-> <<>>,
         cheapest_flights   |-> <<Cheapest(fl)>>,
         fastest_flights    |-> IF HasDurationColumn(fl) THEN <<Fastest(fl)>> ELSE <<>>,
         booking_recommendations |->
             <<"Consider booking in advance for better prices",
               "Check multiple airlines for the best deals">>]

\* return AnalysisResponse(success=True, insights=FlightInsights(**insights), ...)
BasicConstruct(ins) ==
    IF "FlightInsights" \notin EndpointNames THEN "NameError"
    ELSE IF \E k \in 1..Len(ins.cheapest_flights) : ~RecommendationValid(ins.cheapest_flights[k])
         THEN "ValidationError"
    ELSE IF \E k \in 1..Len(ins.fastest_flights) : ~RecommendationValid(ins.fastest_flights[k])
         THEN "ValidationError"
    ELSE "bundle"

\* @app.on_event("startup"): app.state.gemini_analyzer is set when the key is
\* configured and GeminiAnalyzer(key) did not raise
Startup(credential, init_ok) == credential /\ init_ok

StatsSamples ==
    { [min |-> 1, max |-> 3, average |-> 2, median |-> 2],
      [min |-> 3, max |-> 1, average |-> 5, median |-> 0] }

ScoreSamples == { <<>>, <<50>>, <<101>>, <<50, -1>> }

\* what generate_content_async can answer: an error, or a completion text
NotJson == [is_json |-> FALSE, pa |-> "none", stats |-> [min |-> 1, max |-> 3, average |-> 2, median |-> 2], value_scores |-> <<>>]

Completions ==
    {NotJson} \cup
    [is_json : {TRUE}, pa : {"none", "overall", "template"},
     stats : StatsSamples, value_scores : ScoreSamples]

UpstreamError == [error |-> TRUE, completion |-> NotJson]
UpstreamAnswers == {UpstreamError} \cup {[error |-> FALSE, completion |-> c] : c \in Completions}

\* a validate that would hand text json.loads rejects on as an empty result
ProcessAcceptsAnyText(c) ==
    IF \/ c.pa = "template"
       \/ \E k \in 1..Len(c.value_scores) :
              c.value_scores[k] < 0 \/ c.value_scores[k] > 100
    THEN "ValueError"
    ELSE "bundle"

\* _process_gemini_response: the exception it ends in, or "bundle"
ProcessGeminiResponse(c) ==
    IF ~c.is_json THEN "ValueError"            \* json.JSONDecodeError, line 211
    ELSE IF \/ c.pa = "template"               \* PriceAnalysis(**{"airline1": {...}})
            \/ \E k \in 1..Len(c.value_scores) :
                   c.value_scores[k] < 0 \/ c.value_scores[k] > 100
         THEN IF "traceback" \in GeminiNames THEN "ValueError" ELSE "NameError"
    ELSE "bundle"

AiInsights(c) ==
    [summary |-> "ai",
     price_analysis |-> IF c.pa = "overall" THEN {<<"overall", c.stats>>} ELSE {},
     value_scores |-> c.value_scores]

\* GeminiAnalyzer.analyze_flights with a configured model
GeminiAnalyze(answer) ==
    IF answer.error THEN "UpstreamError"
    ELSE ProcessGeminiResponse(answer.completion)

\* an analyze call that would send the prompt a second time after a failure
GeminiCallRetriesOnce(hasModel, answer) ==
    IF ~hasModel THEN [issued |-> <<>>, result |-> "ValueError"]
    ELSE [issued |-> IF GeminiAnalyze(answer) = "bundle"
                     THEN <<"generate_content">>
                     ELSE <<"generate_content", "generate_content">>,
          result |-> GeminiAnalyze(answer)]

\* GeminiAnalyzer.analyze_flights (lines 46-65): the requests it sends to the
\* service, in order, and how it ends
GeminiCall(hasModel, answer) ==
    IF ~hasModel THEN [issued |-> <<>>, result |-> "ValueError"]
    ELSE [issued |-> <<"generate_content">>, result |-> GeminiAnalyze(answer)]

Requests ==
    [flights : FlightLists, use_ai : BOOLEAN, credential : BOOLEAN, init_ok : BOOLEAN]

HasAnalyzer(req) == Startup(req.credential, req.init_ok)

\* a raised HTTPException, or the returned AnalysisResponse
HttpError(code) == [status |-> code, body |-> "error"]
HttpOk         == [status |-> 200, body |-> "insights"]

\* a handler without the empty check
RejectsNothing(fl) == FALSE

\* if not analysis_request.flights   (line 121)
RejectsEmpty(fl) == fl = <<>>

\* lines 118-130: the empty check, then the choice of path
AnalyzeEnter ==
    /\ anPc = "enter"
    /\ IF RejectsEmpty(request.flights)
       THEN /\ outcome' = HttpError(400)
            /\ anPc' = "done"
            /\ trace' = Append(trace, "rejected")
       ELSE /\ UNCHANGED outcome
            /\ anPc' = IF request.use_ai /\ HasAnalyzer(request) THEN "ai" ELSE "basic"
            /\ trace' = Append(trace, "enter")
    /\ UNCHANGED <<request, response, insights, gemini>>
    /\ UNCHANGED <<exVars, ssVars, scVars, elVars>>

\* lines 144-150: except Exception with response still None
AiFailure(exc) ==
    [pc |-> "done", outcome |-> HttpError(503)]

\* lines 131-134: await gemini_analyzer.analyze_flights(flights)
AiAnalyze ==
    /\ anPc = "ai"
    /\ \E answer \in UpstreamAnswers :
          LET call == GeminiCall(HasAnalyzer(request), answer)
              r == call.result
          IN /\ IF r = "bundle"
              THEN /\ response' = [kind |-> "ai", insights |-> AiInsights(answer.completion),
                                   files |-> FALSE]
                   /\ anPc' = "save"
                   /\ trace' = trace \o call.issued \o <<"ai_ok">>
                   /\ UNCHANGED outcome
              ELSE LET h == AiFailure(r)
                   IN  /\ anPc' = h.pc
                       /\ outcome' = h.outcome
                       /\ trace' = trace \o call.issued \o <<"ai_failed">>
                       /\ UNCHANGED response
             /\ gemini' = [called |-> TRUE, answer |-> answer, result |-> r]
    /\ UNCHANGED <<request, insights>>
    /\ UNCHANGED <<exVars, ssVars, scVars, elVars>>

\* save_analysis_to_files: pd.DataFrame(...) at gemini.py:230
SaveRaises == "pd" \notin GeminiNames

\* lines 136-156: save the files (a failure is caught with response set), return response
SaveAndReturn ==
    /\ anPc = "save"
    /\ response' = [response EXCEPT !.files = ~SaveRaises]
    /\ outcome' = HttpOk
    /\ anPc' = "done"
    /\ trace' = Append(trace, IF SaveRaises THEN "save_failed" ELSE "saved")
    /\ UNCHANGED <<request, insights, gemini>>
    /\ UNCHANGED <<exVars, ssVars, scVars, elVars>>

\* lines 153-165: response = await _perform_basic_analysis(flights); an
\* exception becomes the 500 of the outer handler
BasicAnalysis ==
    /\ anPc = "basic"
    /\ LET ins == BasicInsights(request.flights)
           res == BasicConstruct(ins)
       IN  /\ insights' = [computed |-> TRUE, dict |-> ins, constructed |-> res]
           /\ IF res = "bundle"
              THEN /\ response' = [kind |-> "basic", insights |-> ins, files |-> FALSE]
                   /\ outcome' = HttpOk
              ELSE /\ outcome' = HttpError(500)
                   /\ UNCHANGED response
    /\ anPc' = "done"
    /\ trace' = Append(trace, "basic")
    /\ UNCHANGED <<request, gemini>>
    /\ UNCHANGED <<exVars, ssVars, scVars, elVars>>

InitAnalyze ==
    /\ anPc = "enter"
    /\ request \in Requests
    /\ response = NoResponse
    /\ insights = NoInsights
    /\ outcome = NoOutcome
    /\ trace = <<>>
    /\ gemini = NoGemini
    /\ ExIdle
    /\ SsIdle
    /\ ScIdle
    /\ ElIdle

NextAnalyze == AnalyzeEnter \/ AiAnalyze \/ SaveAndReturn \/ BasicAnalysis

SpecAnalyze == InitAnalyze /\ [][NextAnalyze]_vars

(***************************************************************************)
(* FlightScraper.get_flights, browser path (flight_scraper.py:133-198,     *)
(* kept in the source behind the early `return response` of line 131),     *)
(* with the helpers it calls: _setup_browser, _create_context,             *)
(* _wait_for_flight_results, _extract_flight_data, _save_debug_info.       *)
(***************************************************************************)
\* settings.PLAYWRIGHT_TIMEOUT (default 120000 ms) or the constructor's argument
Timeouts == {120000, 1001}

\* what page.goto can answer: no response, or a response with this status
NavAnswers == {0, 200, 404, 503}     \* 0: goto returned None

\* a second wait that would reuse the first wait's timeout
SameTimeout(t) == t

\* int(self.timeout * 1.5)
SecondTimeout(t) == (t * 3) \div 2

\* names get_flights(self, url) can resolve in its own scope
GetFlightsScope == {"self", "url", "playwright", "browser", "context", "page",
                    "response", "flights", "debug_info"}

\* one entry of ssLog: the step, its argument (0 when it has none), how it ended
Entry(ev, arg, ok) == [ev |-> ev, arg |-> arg, ok |-> ok]

\* an exception is raised inside the try block: run the finally clause next
ThrowWith(kind, detail) ==
    /\ locals' = [locals EXCEPT !.pending = kind, !.detail = detail]
    /\ ssPc' = "finally"

Throw(kind) == ThrowWith(kind, [text |-> "other", status |-> 0])

\* a status check that lets every response through, whatever its status
NavFailsOnlyWithoutResponse(st) == st = 0

\* if not response or response.status >= 400   (line 168)
NavFails(st) == st = 0 \/ st >= 400

\* the exception of lines 169-171: "Failed to load page. Status: <status>", or
\* "... Status: No response" (status 0 here)
LoadFailure(st) == [text |-> "Failed to load page. Status", status |-> st]

\* playwright = await async_playwright().start()   (_setup_browser, line 33)
StartPlaywright ==
    /\ ssPc = "setup"
    /\ \/ /\ handles' = handles \cup {"playwright"}
          /\ ssPc' = "launch"
          /\ ssLog' = Append(ssLog, Entry("start", 0, TRUE))
          /\ UNCHANGED locals
       \/ /\ Throw("Exception")
          /\ ssLog' = Append(ssLog, Entry("start", 0, FALSE))
          /\ UNCHANGED handles
    /\ UNCHANGED <<scraper, ssResult>>
    /\ UNCHANGED <<exVars, anVars, scVars, elVars>>

\* browser = await playwright.chromium.launch(...); return playwright, browser
\* (_setup_browser, lines 34-48; the pair is bound at get_flights line 137)
LaunchBrowser ==
    /\ ssPc = "launch"
    /\ \/ /\ handles' = handles \cup {"browser"}
          /\ locals' = [locals EXCEPT !.playwright = TRUE, !.browser = TRUE]
          /\ ssPc' = "context"
          /\ ssLog' = Append(ssLog, Entry("launch", 0, TRUE))
       \/ /\ Throw("Exception")
          /\ ssLog' = Append(ssLog, Entry("launch", 0, FALSE))
          /\ UNCHANGED handles
    /\ UNCHANGED <<scraper, ssResult>>
    /\ UNCHANGED <<exVars, anVars, scVars, elVars>>

\* context = await self._create_context(browser); page = await context.new_page();
\* headers, _block_resources, set_default_navigation_timeout, sleep (lines 138-158)
PreparePage ==
    /\ ssPc = "context"
    /\ \/ /\ ssPc' = "goto"
          /\ ssLog' = Append(ssLog, Entry("prepare", 0, TRUE))
          /\ UNCHANGED locals
       \/ /\ Throw("Exception")
          /\ ssLog' = Append(ssLog, Entry("prepare", 0, FALSE))
    /\ UNCHANGED <<scraper, handles, ssResult>>
    /\ UNCHANGED <<exVars, anVars, scVars, elVars>>

\* response = await page.goto(url, timeout=self.timeout, ...) and the status
\* check of lines 168-171
Goto ==
    /\ ssPc = "goto"
    /\ \/ \E st \in NavAnswers :
             /\ ssLog' = Append(ssLog, Entry("goto", st, TRUE))
             /\ IF NavFails(st)
                THEN ThrowWith("Exception", LoadFailure(st))
                ELSE ssPc' = "wait1" /\ UNCHANGED locals
       \/ /\ ssLog' = Append(ssLog, Entry("goto", 0, FALSE))
          /\ Throw("PlaywrightTimeoutError")
    /\ UNCHANGED <<scraper, handles, ssResult>>
    /\ UNCHANGED <<exVars, anVars, scVars, elVars>>

\* _wait_for_flight_results, first wait (line 230)
WaitListItem ==
    /\ ssPc = "wait1"
    /\ \E ok \in BOOLEAN :
          /\ ssLog' = Append(ssLog, Entry("wait_listitem_price", scraper.timeout, ok))
          /\ ssPc' = IF ok THEN "extract" ELSE "wait2"
    /\ UNCHANGED <<scraper, handles, locals, ssResult>>
    /\ UNCHANGED <<exVars, anVars, scVars, elVars>>

\* _wait_for_flight_results, second wait in the except clause (line 233)
WaitMain ==
    /\ ssPc = "wait2"
    /\ \/ /\ ssLog' = Append(ssLog, Entry("wait_main", SecondTimeout(scraper.timeout), TRUE))
          /\ ssPc' = "extract"
          /\ UNCHANGED locals
       \/ /\ ssLog' = Append(ssLog, Entry("wait_main", SecondTimeout(scraper.timeout), FALSE))
          /\ Throw("PlaywrightTimeoutError")
    /\ UNCHANGED <<scraper, handles, ssResult>>
    /\ UNCHANGED <<exVars, anVars, scVars, elVars>>

\* flights = await self._extract_flight_data(page)   (line 177; never raises)
ExtractStep ==
    /\ ssPc = "extract"
    /\ \E n \in 0..1 : locals' = [locals EXCEPT !.flights = n]
    /\ ssLog' = Append(ssLog, Entry("extract", 0, TRUE))
    /\ ssPc' = "debug"
    /\ UNCHANGED <<scraper, handles, ssResult>>
    /\ UNCHANGED <<exVars, anVars, scVars, elVars>>

\* debug_info = await self._save_debug_info(page, search_params)   (line 180):
\* the argument is evaluated first, and search_params is no name of get_flights
SaveDebugInfo ==
    /\ ssPc = "debug"
    /\ IF "search_params" \notin GetFlightsScope
       THEN /\ Throw("Exception")
            /\ ssLog' = Append(ssLog, Entry("debug_name_error", 0, FALSE))
       ELSE \/ /\ ssPc' = "finally"
               /\ ssLog' = Append(ssLog, Entry("debug_saved", 0, TRUE))
               /\ UNCHANGED locals
            \/ /\ Throw("Exception")
               /\ ssLog' = Append(ssLog, Entry("debug_failed", 0, FALSE))
    /\ UNCHANGED <<scraper, handles, ssResult>>
    /\ UNCHANGED <<exVars, anVars, scVars, elVars>>

\* what leaves get_flights once the finally clause is through
Leave ==
    IF locals.pending = "none"
    THEN [kind |-> "pair", flights |-> locals.flights]
    ELSE [kind |-> "raised",
          message |-> IF locals.pending = "PlaywrightTimeoutError"
                      THEN "Scraping timed out" ELSE "Error scraping flight data",
          inner |-> locals.detail]

\* an exception raised by the finally clause replaces what was leaving; a
\* pending exception stays attached to it as its __context__
CleanupFailure(what) ==
    [kind |-> "raised", message |-> what, inner |-> NoDetail,
     context |-> IF locals.pending = "none" THEN NoResult ELSE Leave]

\* finally: if browser: await browser.close()      (lines 194-196)
\*          if playwright: await playwright.stop() (lines 197-198)
Finally ==
    /\ ssPc = "finally"
    /\ \/ \* both closes go through, or there is nothing to close
          /\ handles' = (handles \ (IF locals.browser THEN {"browser"} ELSE {}))
                            \ (IF locals.playwright THEN {"playwright"} ELSE {})
          /\ ssResult' = Leave
          /\ ssLog' = Append(ssLog, Entry("finally", 0, TRUE))
       \/ \* browser.close() raises: playwright.stop() is not reached
          /\ locals.browser
          /\ \E closed \in BOOLEAN :
                handles' = IF closed THEN handles \ {"browser"} ELSE handles
          /\ ssResult' = CleanupFailure("close failed")
          /\ ssLog' = Append(ssLog, Entry("close", 0, FALSE))
       \/ \* playwright.stop() raises after the browser was closed
          /\ locals.playwright
          /\ handles' = handles \ {"browser"}
          /\ ssResult' = CleanupFailure("stop failed")
          /\ ssLog' = Append(ssLog, Entry("stop", 0, FALSE))
    /\ ssPc' = "left"
    /\ UNCHANGED <<scraper, locals>>
    /\ UNCHANGED <<exVars, anVars, scVars, elVars>>

InitBrowser ==
    /\ ssPc = "setup"
    /\ scraper \in [timeout : Timeouts]
    /\ handles = {}
    /\ locals = NoLocals
    /\ ssLog = <<>>
    /\ ssResult = NoResult
    /\ ExIdle
    /\ AnIdle
    /\ ScIdle
    /\ ElIdle

NextBrowser ==
    \/ StartPlaywright \/ LaunchBrowser \/ PreparePage \/ Goto
    \/ WaitListItem \/ WaitMain \/ ExtractStep \/ SaveDebugInfo \/ Finally

SpecBrowser == InitBrowser /\ [][NextBrowser]_vars

(***************************************************************************)
(* POST /search as shipped: search_flights (flights.py:45-100) calls       *)
(* FlightScraper.scrape_google_flights (flight_scraper.py:86-101), which   *)
(* builds the URL and calls the live get_flights (lines 103-131).          *)
(***************************************************************************)
LowerLetters ==
    <<"a", "b", "c", "d", "e", "f", "g", "h", "i", "j", "k", "l", "m", "n",
     "o", "p", "q", "r", "s", "t", "u", "v", "w", "x", "y", "z">>
UpperLetters ==
    <<"A", "B", "C", "D", "E", "F", "G", "H", "I", "J", "K", "L", "M", "N",
     "O", "P", "Q", "R", "S", "T", "U", "V", "W", "X", "Y", "Z">>

\* str.upper(), one character
UpperChar(c) ==
    IF \E i \in DOMAIN LowerLetters : LowerLetters[i] = c
    THEN UpperLetters[CHOOSE i \in DOMAIN LowerLetters : LowerLetters[i] = c]
    ELSE c

\* str.upper()
Upper(t) == [i \in DOMAIN t |-> UpperChar(t[i])]

\* str.replace(ch, sub) for a one-character ch
RECURSIVE Replace(_, _, _)
Replace(t, ch, sub) ==
    IF t = <<>> THEN <<>>
    ELSE (IF Head(t) = ch THEN sub ELSE <<Head(t)>>) \o Replace(Tail(t), ch, sub)

Space == " "
Pct20 == <<"%", "2", "0">>

\* "https://www.google.com/travel/flights?q="
BaseUrl ==
    <<"h", "t", "t", "p", "s", ":", "/", "/",
     "w", "w", "w", ".", "g", "o", "o", "g", "l", "e", ".", "c", "o", "m">> \o
    <<"/", "t", "r", "a", "v", "e", "l", "/", "f", "l", "i", "g", "h", "t", "s", "?", "q", "=">>

\* f"Flights from {dep} to {dest} on {date}"
QueryText(dep, dest, date) ==
    <<"F", "l", "i", "g", "h", "t", "s", " ", "f", "r", "o", "m", " ">> \o dep \o
    <<" ", "t", "o", " ">> \o dest \o <<" ", "o", "n", " ">> \o date

\* the same URL without the two calls of upper()
BuildUrlKeepsCase(sp) ==
    BaseUrl \o Replace(QueryText(sp.departure, sp.destination, sp.date), Space, Pct20)

\* _build_google_flights_url
BuildGoogleFlightsUrl(sp) ==
    LET dep   == Upper(sp.departure)
        dest  == Upper(sp.destination)
        date  == sp.date
        query == Replace(QueryText(dep, dest, date), Space, Pct20)
    IN  BaseUrl \o query

\* three-letter airport codes as a client may type them
Codes == { <<"S", "Y", "D">>, <<"d", "x", "b">>, <<"L", "h", "r">>, <<"j", "f", "K">> }

\* date strings datetime.strptime(v, '%Y-%m-%d') accepts
Dates == { <<"2", "0", "2", "5", "-", "0", "8", "-", "0", "5">>,
           <<"2", "0", "2", "5", "-", "8", "-", "5">> }

SearchParams == [departure : Codes, destination : Codes, date : Dates]

\* lines 96-98 of scrape_google_flights
BuildUrl ==
    /\ scPc = "build"
    /\ url' = BuildGoogleFlightsUrl(params)
    /\ scPc' = "call"
    /\ UNCHANGED <<params, scraped, reply>>
    /\ UNCHANGED <<exVars, anVars, ssVars, elVars>>

\* the object client.responses.create(...) returns: no list, no 2-tuple
OpenAIResponse == [kind |-> "returned", shape |-> "openai_response"]

\* flights = await self.get_flights(url); return flights   (lines 99-101, 103-131):
\* OpenAI(...) or responses.create(...) raises, or the response object comes back
GetFlights ==
    /\ scPc = "call"
    /\ \/ scraped' = OpenAIResponse
       \/ scraped' = [kind |-> "raised", shape |-> "none"]
    /\ scPc' = "consume"
    /\ UNCHANGED <<params, url, reply>>
    /\ UNCHANGED <<exVars, anVars, ssVars, elVars>>

\* flights_data, debug_info = <value>   (flights.py:75)
UnpacksAsPair(v) == v.shape = "pair"

\* search_flights, lines 75-100
SearchFlights(v) ==
    IF v.kind = "raised" THEN [status |-> 500, body |-> "error"]
    ELSE IF ~UnpacksAsPair(v) THEN [status |-> 500, body |-> "error"]
    ELSE IF v.flights = 0 THEN [status |-> 404, body |-> "error"]
    ELSE [status |-> 200, body |-> "flights"]

Consume ==
    /\ scPc = "consume"
    /\ reply' = SearchFlights(scraped)
    /\ scPc' = "done"
    /\ UNCHANGED <<params, url, scraped>>
    /\ UNCHANGED <<exVars, anVars, ssVars, elVars>>

InitSearch ==
    /\ scPc = "build"
    /\ params \in SearchParams
    /\ url = <<>>
    /\ scraped = NoScraped
    /\ reply = NoReply
    /\ ExIdle
    /\ AnIdle
    /\ SsIdle
    /\ ElIdle

NextSearch == BuildUrl \/ GetFlights \/ Consume

SpecSearch == InitSearch /\ [][NextSearch]_vars

(***************************************************************************)
(* The event loop of one server process: every handler is a coroutine      *)
(* (`async def`), one handler runs at a time, and the thread passes to     *)
(* another request only where the running handler awaits pending I/O.      *)
(***************************************************************************)
NumTasks == 3

Tasks == 1..NumTasks

\* POST /search (flights.py:45) and POST /analyze (flights.py:102)
Handlers == {"search", "analyze"}

\* the external call of a handler gives the thread back while it is pending:
\* /analyze awaits generate_content_async (gemini.py:58); /search reaches
\* client.responses.create(...) of the synchronous OpenAI client, called
\* without await inside the coroutine get_flights (flight_scraper.py:104-129)
Suspends(handler) == handler = "analyze"

\* the loop starts a request's handler, or resumes it after its awaited I/O
Resume(t) ==
    /\ running = 0
    /\ tasks[t].pc \in {"pending", "ready"}
    /\ tasks' = [tasks EXCEPT ![t].pc = IF tasks[t].pc = "pending" THEN "before" ELSE "after"]
    /\ running' = t
    /\ UNCHANGED <<exVars, anVars, ssVars, scVars>>

\* the handler reaches its external call
CallExternal(t) ==
    /\ running = t
    /\ tasks[t].pc = "before"
    /\ tasks' = [tasks EXCEPT ![t].pc = "io"]
    /\ running' = IF Suspends(tasks[t].handler) THEN 0 ELSE t
    /\ UNCHANGED <<exVars, anVars, ssVars, scVars>>

\* the external service answers: a blocking call returns into the handler, an
\* awaited one makes the handler ready to be resumed
IoComplete(t) ==
    /\ tasks[t].pc = "io"
    /\ tasks' = [tasks EXCEPT ![t].pc = IF running = t THEN "after" ELSE "ready"]
    /\ UNCHANGED running
    /\ UNCHANGED <<exVars, anVars, ssVars, scVars>>

\* the handler returns its answer
Finish(t) ==
    /\ running = t
    /\ tasks[t].pc = "after"
    /\ tasks' = [tasks EXCEPT ![t].pc = "done"]
    /\ running' = 0
    /\ UNCHANGED <<exVars, anVars, ssVars, scVars>>

InitLoop ==
    /\ tasks \in [Tasks -> [handler : Handlers, pc : {"pending"}]]
    /\ running = 0
    /\ ExIdle
    /\ AnIdle
    /\ SsIdle
    /\ ScIdle

NextLoop ==
    \E t \in Tasks : Resume(t) \/ CallExternal(t) \/ IoComplete(t) \/ Finish(t)

SpecLoop == InitLoop /\ [][NextLoop]_vars

(***************************************************************************)
(* Properties of the extractor (SpecExtract).                              *)
(***************************************************************************)
\* query_selector_all answered (the loop was entered)
Enumerated == exPc = "loop" \/ page # <<>> \/ (exPc = "returned" /\ nItems = 0 /\ ~logged)

\* no element read of item c raised
NoReadRaised(c) ==
    /\ c.dep.k # "raise"
    /\ c.arr.k # "raise"
    /\ c.dur.k # "raise"
    /\ c.price_text.k # "raise"
    /\ c.stops_text.k # "raise"

\* the items whose loop body ran to its end
Completed ==
    IF page # <<>> /\ CardRaises(page[Len(page)]) THEN Len(page) - 1 ELSE Len(page)

\* the text holds "nonstop" in some letter case
HasNonstopAnyCase(t) ==
    \E k \in 1..(Len(t) - 6) :
        \A j \in 1..7 : LowerChar(t[k + j - 1]) = NonstopWord[j]

\* C5: a failure while reading a single field of one item degrades that field
\* alone, so the extractor returns min(number of list items, 30) records
\* (stated for pages whose price texts all parse and whose items have at most
\* one failing read each).
C5_FieldIndependent ==
    (/\ exPc = "returned"
     /\ Enumerated
     /\ \A i \in 1..Len(page) :
           /\ ~PriceValue(page[i].price_text).raised
           /\ page[i].airline.k = "raise" => NoReadRaised(page[i]))
    => Len(flights) = Min(nItems, MaxResults)

\* C6: the extractor never raises; it returns exactly the records completed
\* before the failure, in page order (none on total failure), and logs the cause.
C6_NeverRaises ==
    /\ exPc # "raised"
    /\ exPc = "returned" =>
          /\ flights = [i \in 1..Completed |-> MakeFlight(page[i])]
          /\ (Completed < CardsToRead(nItems)) => logged

C6_Witness ==
    /\ exPc = "returned"
    /\ logged
    /\ Len(flights) >= 1
    /\ Len(flights) < nItems

\* C7: an item whose price element is absent or whose price text does not
\* parse still yields a record, and that record's price is 0.0.
C7_DegradedPriceIsZero ==
    \A i \in 1..Len(page) :
        (/\ NoReadRaised(page[i])
         /\ \/ page[i].price_text = OutNone
            \/ PriceValue(page[i].price_text).raised)
        => (Len(flights) >= i /\ flights[i].price = 0)

\* C8: a page of n <= 30 items, some without a price element, yields exactly n
\* records in page order, price 0.0 for the priceless ones, source "scraper" on all.
C8_ScenarioA ==
    (/\ exPc = "returned"
     /\ Enumerated
     /\ nItems <= MaxResults
     /\ \A i \in 1..Len(page) : NoReadRaised(page[i]) /\ page[i].airline.k # "raise"
     /\ \E i \in 1..Len(page) : page[i].price_text = OutNone)
    => /\ Len(flights) = nItems
       /\ \A i \in 1..Len(flights) :
             /\ flights[i].source = "scraper"
             /\ flights[i].airline = TextOr(page[i].airline, Unknown)
             /\ flights[i].stops = StopsOf(page[i].stops_text)
             /\ page[i].price_text = OutNone => flights[i].price = 0

\* C9: never more records than list items, never more than 30, and only the
\* first 30 list items are read.
C9_AtMostThirty ==
    /\ Len(flights) <= Min(nItems, MaxResults)
    /\ Len(page) <= MaxResults

C9_Witness ==
    /\ exPc = "returned"
    /\ nItems > MaxResults
    /\ Len(flights) = MaxResults

\* C10: a stop text holding "nonstop" in any letter case gives stops = 0, any
\* other non-empty text gives stops = 1, and stops is never another value.
C10_StopNormalization ==
    \A i \in 1..Len(flights) :
        LET st == page[i].stops_text
        IN  /\ flights[i].stops \in {0, 1}
            /\ (st.k = "text" /\ HasNonstopAnyCase(st.t)) => flights[i].stops = 0
            /\ (st.k = "text" /\ st.t # <<>> /\ ~HasNonstopAnyCase(st.t))
                  => flights[i].stops = 1

C10_Witness ==
    /\ exPc = "returned"
    /\ Len(flights) = 2
    /\ page[1].stops_text = OutText(<<"x", "N", "O", "N", "S", "T", "O", "P", "x">>)
    /\ flights[1].stops = 0
    /\ page[2].stops_text = OutText(<<"N", "o", "n", " ", "s", "t", "o", "p">>)
    /\ flights[2].stops = 1

\* C18: every record the extractor returns has price >= 0 and stops >= 0,
\* whatever price text the page shows.
C18_NonNegative ==
    exPc = "returned" =>
    \A i \in 1..Len(flights) : flights[i].price >= 0 /\ flights[i].stops >= 0

(***************************************************************************)
(* Properties of the analysis endpoint (SpecAnalyze).                      *)
(***************************************************************************)
Occurs(ev) == \E k \in 1..Len(trace) : trace[k] = ev

\* C1: for a non-empty flight list, a failed AI attempt is recovered by the
\* basic analyzer and the caller receives an InsightBundle, not an error.
C1_AiFailureRecovered ==
    (anPc = "done" /\ request.flights # <<>> /\ Occurs("ai_failed"))
    => (Occurs("basic") /\ outcome = HttpOk)

\* C2: on a non-empty list of valid flight records the basic analyzer ends in
\* an InsightBundle holding the cheapest record, never in an error.
C2_BasicAlwaysSucceeds ==
    insights.computed
    => /\ insights.constructed = "bundle"
       /\ outcome = HttpOk
       /\ response.kind = "basic"
       /\ \E k \in 1..Len(response.insights.cheapest_flights) :
              \A i \in 1..Len(request.flights) :
                  response.insights.cheapest_flights[k].price <= request.flights[i].price

Logged(ev) == \E k \in 1..Len(ssLog) : ssLog[k].ev = ev

\* page.goto answered st: no response (0) or a status of 400 and above
NavigationFailedWith(st) ==
    /\ st = 0 \/ st >= 400
    /\ \E k \in 1..Len(ssLog) : ssLog[k] = Entry("goto", st, TRUE)

\* the error, or the error it replaced, names the status st
CarriesStatus(res, st) ==
    \/ res.inner = [text |-> "Failed to load page. Status", status |-> st]
    \/ /\ res.inner = NoDetail
       /\ res.context.kind = "raised"
       /\ res.context.inner = [text |-> "Failed to load page. Status", status |-> st]

CleanExit == ssPc = "left" /\ Logged("finally")

NonJsonAnswered ==
    /\ gemini.called
    /\ ~gemini.answer.error
    /\ ~gemini.answer.completion.is_json

\* C11: whenever the completion handed to _process_gemini_response is not valid
\* JSON, the call ends in ValueError and no bundle, partial or otherwise, exists.
C11_NonJsonRaisesValueError ==
    NonJsonAnswered => (gemini.result = "ValueError" /\ response = NoResponse)

C11_Witness ==
    /\ NonJsonAnswered
    /\ gemini.result = "ValueError"
    /\ anPc = "done"

\* the completion is JSON whose only defect is a value_score outside [0, 100]
ScoreOutOfRangeAnswered ==
    /\ gemini.called
    /\ ~gemini.answer.error
    /\ gemini.answer.completion.is_json
    /\ gemini.answer.completion.pa # "template"
    /\ \E k \in 1..Len(gemini.answer.completion.value_scores) :
           \/ gemini.answer.completion.value_scores[k] < 0
           \/ gemini.answer.completion.value_scores[k] > 100

\* C12: a JSON completion with a value_score outside [0, 100] on a recommendation
\* entry makes _process_gemini_response fail wholesale with the same error kind
\* as non-JSON input (ValueError), and no bundle exists.
C12_BadScoreRaisesValueError ==
    ScoreOutOfRangeAnswered => (gemini.result = "ValueError" /\ response = NoResponse)

\* C14: with no AI credential configured and N >= 1 flight records supplied, no
\* upstream request is issued, the handler falls back to the basic analyzer,
\* and the caller receives a bundle whose first key finding states N flights
\* with the least and the greatest price of the list.
C14_ScenarioC ==
    (anPc = "done" /\ ~request.credential /\ request.flights # <<>>)
    => /\ ~Occurs("generate_content")
       /\ Occurs("basic")
       /\ outcome = HttpOk
       /\ response.kind = "basic"
       /\ LET found == response.insights.key_findings[1]
          IN  /\ found.found = Len(request.flights)
              /\ \E i \in 1..Len(request.flights) : found.from = Q(request.flights[i].price, 1)
              /\ \E i \in 1..Len(request.flights) : found.to = Q(request.flights[i].price, 1)
              /\ \A i \in 1..Len(request.flights) :
                     /\ LeqQ(found.from, Q(request.flights[i].price, 1))
                     /\ LeqQ(Q(request.flights[i].price, 1), found.to)

\* min <= average <= max and min <= median <= max, on the numbers of a completion
StatsOrdered(st) ==
    /\ st.min <= st.average /\ st.average <= st.max
    /\ st.min <= st.median /\ st.median <= st.max

\* the same on the exact fractions of the basic analyzer
StatsOrderedQ(st) ==
    /\ LeqQ(st.min, st.average) /\ LeqQ(st.average, st.max)
    /\ LeqQ(st.min, st.median) /\ LeqQ(st.median, st.max)

\* C17: every bundle the caller receives, from an AI completion or from the
\* basic analyzer, has min <= average <= max and min <= median <= max in each
\* entry of price_analysis.
C17_BundleStatsOrdered ==
    (anPc = "done" /\ outcome = HttpOk)
    => IF response.kind = "ai"
       THEN \A e \in response.insights.price_analysis : StatsOrdered(e[2])
       ELSE StatsOrderedQ(response.insights.price_analysis.overall)

\* how many requests the handler's analyze call sent to the service
UpstreamRequests == Cardinality({k \in 1..Len(trace) : trace[k] = "generate_content"})

\* C21: one analyze call sends at most one request to the generative-text
\* service: exactly one once it ran with a configured model, none before or
\* without it; after an upstream error or a rejected completion there is no
\* second request and the call has ended in that error.
C21_SingleRequest ==
    /\ UpstreamRequests <= 1
    /\ UpstreamRequests = 1 <=> gemini.called
    /\ (gemini.called /\ (gemini.answer.error \/ gemini.result # "bundle"))
          => /\ gemini.result \in {"UpstreamError", "ValueError", "NameError"}
             /\ response = NoResponse
             /\ anPc = "done"
             /\ ~Occurs("ai_ok")

C21_Witness ==
    /\ anPc = "done"
    /\ gemini.called
    /\ gemini.answer.error
    /\ gemini.result = "UpstreamError"
    /\ UpstreamRequests = 1
    /\ outcome.status = 503

\* C23: an empty flight list is answered 400 at once, whether use_ai is set or
\* not: neither the AI call nor the basic analyzer runs on it, and the caller
\* receives the 400, not a 500.
C23_EmptyRejected ==
    /\ (request.flights = <<>> /\ anPc # "enter")
          => /\ anPc = "done"
             /\ outcome = HttpError(400)
             /\ trace = <<"rejected">>
             /\ ~gemini.called
             /\ ~insights.computed
    /\ insights.computed => request.flights # <<>>

C23_Witness ==
    /\ request.flights = <<>>
    /\ request.use_ai
    /\ HasAnalyzer(request)
    /\ anPc = "done"
    /\ outcome = HttpError(400)

\* the completion follows the RETURN FORMAT of the prompt: price_analysis holds
\* "overall" and "by_airline", the recommendation lists carry no bad score
TemplateAnswered ==
    /\ gemini.called
    /\ ~gemini.answer.error
    /\ gemini.answer.completion.is_json
    /\ gemini.answer.completion.pa = "template"
    /\ \A k \in 1..Len(gemini.answer.completion.value_scores) :
           /\ gemini.answer.completion.value_scores[k] >= 0
           /\ gemini.answer.completion.value_scores[k] <= 100

\* C24: a completion that follows the prompt's own template, with "overall"
\* and "by_airline" in price_analysis and numeric stats, is accepted by
\* _process_gemini_response and yields a bundle.
C24_TemplateAccepted ==
    TemplateAnswered => (gemini.result = "bundle" /\ response.kind = "ai")

(***************************************************************************)
(* Properties of POST /search and of the URL builder (SpecSearch).         *)
(***************************************************************************)
\* C13: a scrape ends either in a list of flight records handed to its caller or
\* in an explicit error, never in a value of another shape; and whenever the
\* scrape returned, search_flights consumes the value without failing.
C13_ListOrError ==
    /\ scraped.kind = "returned" => scraped.shape = "flight_list"
    /\ (scPc = "done" /\ scraped.kind = "returned") => reply.status # 500

\* the URL the claim describes, written out piece by piece
ExpectedUrl(sp) ==
    BaseUrl \o <<"F", "l", "i", "g", "h", "t", "s">> \o Pct20 \o <<"f", "r", "o", "m">> \o Pct20
        \o Upper(sp.departure) \o Pct20 \o <<"t", "o">> \o Pct20
        \o Upper(sp.destination) \o Pct20 \o <<"o", "n">> \o Pct20 \o sp.date

\* C19: the URL built for a search is the fixed pattern
\* "Flights from <DEP> to <DEST> on <date>" behind the base URL, with the two
\* codes uppercased, the date as given, every space turned into %20 and no
\* other character altered.
C19_UrlPattern ==
    scPc # "build" =>
        /\ url = ExpectedUrl(params)
        /\ \A i \in DOMAIN url : url[i] # Space

C19_Witness ==
    /\ scPc = "call"
    /\ params.departure = <<"d", "x", "b">>
    /\ params.destination = <<"L", "h", "r">>
    /\ params.date = <<"2", "0", "2", "5", "-", "8", "-", "5">>
    /\ url = BaseUrl \o <<"F", "l", "i", "g", "h", "t", "s", "%", "2", "0", "f", "r", "o", "m", "%", "2", "0",
                         "D", "X", "B", "%", "2", "0", "t", "o", "%", "2", "0", "L", "H", "R", "%", "2", "0",
                         "o", "n", "%", "2", "0", "2", "0", "2", "5", "-", "8", "-", "5">>

(***************************************************************************)
(* Properties of the event loop (SpecLoop).                                *)
(***************************************************************************)
\* C22: while a scrape waits for the external call made inside get_flights,
\* its handler does not hold the loop's thread: no other request that is
\* pending or ready has to wait for that call to complete.
C22_ScrapeWaitSuspends ==
    \A t \in DOMAIN tasks : \A u \in DOMAIN tasks :
        ( /\ t # u
          /\ tasks[t].handler = "search" /\ tasks[t].pc = "io"
          /\ tasks[u].pc \in {"pending", "ready"} )
        => running # t

=============================================================================
